---- MODULE Spec2Model ----
(***************************************************************************)
(* cldzmsg: server-side rate governor, connection actors and broadcast     *)
(* hub (cmd/server/main.go, internal/server/{ratelimit,handlers,ws}) and   *)
(* the client reconnect controller (cmd/client/main.go).                   *)
(***************************************************************************)
EXTENDS Integers, Sequences, FiniteSets, TLC

\* ------------------------------------------------------------------------
\* Bounds
\* ------------------------------------------------------------------------
\* per-address connection ceiling (RateLimiter.maxConns, env-overridable)
MaxConns == 1
\* authentication attempts per window (RateLimiter.maxAuth, env-overridable)
MaxAuth == 3
\* length of the one-minute window, in clock ticks
Window == 2
\* last clock tick explored
MaxTime == 3
\* admits explored beyond the ceiling (addConnection itself never checks)
MaxOver == 3
\* login forms the user submits
MaxSubmits == 2
\* connections the server side drops
MaxDrops == 2
\* capacity of an actor's outbound queue (make(chan []byte, 256)), scaled
SendCap == 1
\* the same, where the order of the envelopes in one queue is examined
WideCap == 2

\* reconnections scheduled before the client gives up
ReconnectLimit == 5

Addrs == {"ip1", "ip2"}

\* connection actors, and the source address each connects from
Actors == {"a1", "a2"}

ActorIP(a) == "ip1"

\* the two server builds in the repository: the single-file server
\* (cmd/server/main.go) and the packaged one (internal/server/ws, handlers)
Builds == {"mono", "ws"}

\* handles of the client's websocket connections; 0 is the nil *websocket.Conn
ConnIds == {1, 2}

\* ------------------------------------------------------------------------
\* State
\* ------------------------------------------------------------------------
VARIABLES
    connections,   \* RateLimiter.connections: map ip -> count
    authAttempts,  \* RateLimiter.authAttempts: map ip -> sequence of stamps
    now,           \* the monotonic clock read by time.Now()
    outstanding,   \* history: admits minus releases per address
    accepted,      \* history: stamps of every accepted attempt per address
    lastCall,      \* history: the governor call made by the last step
    \* --- client (cmd/client/main.go, type model) ---
    cl,            \* the fields of the bubbletea model the controller uses
    dials,         \* connectToServer commands in flight
    timers,        \* pending tea.Tick reconnect timers: delay -> how many
    listens,       \* listenForMessages commands in flight: conn -> how many
    quit,          \* tea.Quit was returned
    ep,            \* history: the current run of connection attempts
    authSent,      \* history: live conn -> the auth envelope wsConnected sent on it
    \* --- server (handleWebSocket, Client, Hub) ---
    build,         \* which server build runs
    rpc,           \* per actor: where its inbound (reader) loop stands
    pend,          \* per actor: the envelope the reader is about to hand over
    wpc,           \* per actor: where its outbound (writer) loop stands
    send,          \* per actor: the buffered channel client.send
    sendClosed,    \* per actor: close(client.send) has been executed
    connCloses,    \* per actor: number of conn.Close() calls
    userID,        \* per actor: client.userID (0 until authenticated)
    clients,       \* Hub.clients: actor -> number of entries under that key
    crashed,       \* an unrecovered panic has ended the process
    accounts,      \* the ids of the users the store holds
    capacity,      \* the buffer size client.send was made with
    \* --- client session store (internal/client/session) ---
    sessionFile,   \* <config dir>/session.json: present or not, and its bytes
    encKey,        \* the machine identity getEncryptionKey hashes into the key
    origin,        \* history: who wrote the file last, and what was written
    lastLoad,      \* history: the session-store call made by the last step
    damaged        \* history: the file, or the one it was migrated from, was damaged

govVars == <<connections, authAttempts, now, outstanding, accepted, lastCall>>

clVars == <<cl, dials, timers, listens, quit, ep, authSent>>

srvVars == <<build, rpc, pend, wpc, send, sendClosed, connCloses, userID,
             clients, crashed, accounts, capacity>>

sessVars == <<sessionFile, encKey, origin, lastLoad, damaged>>

vars == <<connections, authAttempts, now, outstanding, accepted, lastCall,
          cl, dials, timers, listens, quit, ep, authSent,
          build, rpc, pend, wpc, send, sendClosed, connCloses, userID,
          clients, crashed, accounts, capacity,
          sessionFile, encKey, origin, lastLoad, damaged>>

\* ------------------------------------------------------------------------
\* Go maps: a function whose domain is the set of present keys
\* ------------------------------------------------------------------------
EmptyMap == [k \in {} |-> 0]

MapSet(m, k, v) == [x \in (DOMAIN m) \cup {k} |-> IF x = k THEN v ELSE m[x]]

MapDel(m, k) == [x \in (DOMAIN m) \ {k} |-> m[x]]

\* reading a missing key of map[string]int yields 0
ConnCount(conns, ip) == IF ip \in DOMAIN conns THEN conns[ip] ELSE 0

\* reading a missing key of map[string][]time.Time yields nil
Attempts(att, ip) == IF ip \in DOMAIN att THEN att[ip] ELSE <<>>

\* ------------------------------------------------------------------------
\* RateLimiter (pure parts)
\* ------------------------------------------------------------------------
\* t.After(cutoff) with cutoff = time.Now().Add(-time.Minute)
\* mutant: a stamp exactly one window old still counts
After_ge(t, cutoff) == t >= cutoff

After(t, cutoff) == t > cutoff

Recent(s, t) == SelectSeq(s, LAMBDA x : After(x, t - Window))

\* mutant: indexing a missing key creates it with the zero value
mapRead_insert(conns, ip) == MapSet(conns, ip, ConnCount(conns, ip))

\* the map after the index expression rl.connections[ip] has been
\* evaluated: Go does not create a missing key on a read
mapRead(conns, ip) == conns

\* mutant: the ceiling itself is still admitted
canConnect_le(conns, ip) == ConnCount(conns, ip) <= MaxConns

canConnect(conns, ip) == ConnCount(conns, ip) < MaxConns

addConnection(conns, ip) == MapSet(conns, ip, ConnCount(conns, ip) + 1)

\* mutant: the decremented count is stored whatever its value
removeConnection_keep(conns, ip) ==
    MapSet(conns, ip, ConnCount(conns, ip) - 1)

removeConnection(conns, ip) ==
    LET n == ConnCount(conns, ip) - 1
    IN  IF n <= 0 THEN MapDel(conns, ip) ELSE MapSet(conns, ip, n)

\* mutant: one attempt more than the ceiling passes
canAuth_le(att, ip, t, t2) ==
    LET recent == Recent(Attempts(att, ip), t)
    IN  IF Len(recent) > MaxAuth
        THEN [ok |-> FALSE, att |-> MapSet(att, ip, recent)]
        ELSE [ok |-> TRUE, att |-> MapSet(att, ip, Append(recent, t2))]

\* mutant: a rejected attempt is recorded as well
canAuth_record(att, ip, t, t2) ==
    LET recent == Recent(Attempts(att, ip), t)
    IN  IF Len(recent) >= MaxAuth
        THEN [ok |-> FALSE, att |-> MapSet(att, ip, Append(recent, t2))]
        ELSE [ok |-> TRUE, att |-> MapSet(att, ip, Append(recent, t2))]

\* canAuth: the verdict and the attempts map it leaves behind; t is the clock
\* reading that gives the cutoff, t2 >= t the later reading that is recorded
canAuth(att, ip, t, t2) ==
    LET recent == Recent(Attempts(att, ip), t)
    IN  IF Len(recent) >= MaxAuth
        THEN [ok |-> FALSE, att |-> MapSet(att, ip, recent)]
        ELSE [ok |-> TRUE, att |-> MapSet(att, ip, Append(recent, t2))]

\* mutant: the sweep drops every stamp, in the window or not
cleanup_all(att, t) == [ip \in {} |-> <<>>]

cleanup(att, t) ==
    LET keep == {ip \in DOMAIN att : Len(Recent(att[ip], t)) > 0}
    IN  [ip \in keep |-> Recent(att[ip], t)]

\* ------------------------------------------------------------------------
\* History helpers
\* ------------------------------------------------------------------------
\* number of stamps of s inside the window (t - Window, t]
InWindow(s, t) == Len(SelectSeq(s, LAMBDA x : x > t - Window /\ x <= t))

NoCall == [op |-> "none", ip |-> "ip1", ok |-> TRUE, full |-> FALSE]

\* ------------------------------------------------------------------------
\* Client reconnect controller (model.Update and its commands)
\* ------------------------------------------------------------------------
NoEpisode == [start |-> "none", dialed |-> 0, failed |-> 0, errs |-> 0,
              delays |-> <<>>, submits |-> 0, drops |-> 0, over |-> FALSE]

\* initialModel; saved: loadSession found a session file
ClInit(saved) ==
    /\ cl = [conn |-> 0, connected |-> FALSE, isReconnecting |-> FALSE,
             reconnectCount |-> 0, err |-> FALSE, isLoading |-> FALSE,
             authenticated |-> FALSE, savedSession |-> saved]
    /\ dials = 0
    /\ timers = [d \in 1..ReconnectLimit |-> 0]
    /\ listens = [c \in ConnIds |-> 0]
    /\ quit = FALSE
    /\ ep = NoEpisode
    /\ authSent = [c \in ConnIds |-> "none"]

\* history: a run of attempts ends with a successful connect; the next
\* event opens a new run; submits and drops count over the whole execution
Episode(kind) == IF ep.over \/ ep.start = "none"
                 THEN [NoEpisode EXCEPT !.start = kind,
                                        !.submits = ep.submits,
                                        !.drops = ep.drops]
                 ELSE ep

\* mutant: the controller gives up one failure earlier
wsErrorRetries_short(count) == count < ReconnectLimit - 1

\* case wsError: `if m.reconnectCount < 5`
wsErrorRetries(count) == count < ReconnectLimit

\* mutant: a constant one-second backoff
backoffDelay_const(count) == 1

\* case wsError: time.Second * time.Duration(m.reconnectCount)
backoffDelay(count) == count

\* mutant: the counter survives a successful connect
countAfterConnect_keep(count) == count

\* case wsConnected: m.reconnectCount = 0
countAfterConnect(count) == 0

\* case wsError of Update: the model it returns and the timer it schedules
UpdateWsError(m) ==
    LET base == [m EXCEPT !.connected = FALSE, !.conn = 0]
    IN  IF wsErrorRetries(m.reconnectCount)
        THEN [model |-> [base EXCEPT !.reconnectCount = m.reconnectCount + 1,
                                     !.isReconnecting = TRUE],
              tick |-> backoffDelay(m.reconnectCount + 1)]
        ELSE [model |-> [base EXCEPT !.isReconnecting = FALSE, !.err = TRUE],
              tick |-> 0]

\* case wsConnected of Update
UpdateWsConnected(m, c) ==
    [m EXCEPT !.conn = c, !.connected = TRUE, !.isReconnecting = FALSE,
              !.reconnectCount = countAfterConnect(m.reconnectCount)]

\* mutant: the error handler starts two timers
Schedule_twice(ts, d) == IF d = 0 THEN ts ELSE [ts EXCEPT ![d] = @ + 2]

\* the tea.Tick command case wsError returns (d = 0: it returns nil)
Schedule(ts, d) == IF d = 0 THEN ts ELSE [ts EXCEPT ![d] = @ + 1]

\* mutant: the stored credentials are sent although a login is in progress
authOnConnect_savedFirst(m) ==
    IF m.savedSession THEN "saved"
    ELSE IF m.isLoading THEN "entered"
    ELSE "none"

\* case wsConnected: `if m.isLoading { ... sendWSMessage("auth", <inputs>) }`,
\* then `if m.savedSession != nil { ... sendWSMessage("auth", <saved>) }`,
\* else only listenForMessages
authOnConnect(m) ==
    IF m.isLoading THEN "entered"
    ELSE IF m.savedSession THEN "saved"
    ELSE "none"

\* the types of the envelopes a receive can return; "malformed": bytes that
\* json.Unmarshal rejects; "other": any type but the two auth replies
IncomingTypes == {"auth_success", "auth_error", "other", "malformed"}

\* mutant: a successful auth reply leaves the model as it was
UpdateWsIncoming_ignore(m, t) == m

\* case wsIncoming of Update: the model after the switch on wsMsg.Type
UpdateWsIncoming(m, t) ==
    IF t = "auth_success"
    THEN [m EXCEPT !.isLoading = FALSE, !.authenticated = TRUE]
    ELSE IF t = "auth_error"
    THEN [m EXCEPT !.isLoading = FALSE, !.savedSession = FALSE]
    ELSE m

\* mutant: the next receive is issued on the connection the envelope came
\* from
relisten_same(m, c, t) == IF t = "malformed" THEN 0 ELSE c

\* case wsIncoming: `return m, nil` on a decoding error, else
\* `if m.conn != nil { cmds = append(cmds, listenForMessages(m.conn)) }`:
\* the connection the next receive is issued on (0: none is issued)
relisten(m, c, t) == IF t = "malformed" THEN 0 ELSE m.conn

\* Enter on the auth form with all three inputs filled in
SubmitLogin ==
    /\ ~quit
    /\ ~cl.authenticated
    /\ Episode("dial").submits < MaxSubmits
    /\ cl' = [cl EXCEPT !.isLoading = TRUE]
    /\ dials' = dials + 1
    /\ ep' = [Episode("dial") EXCEPT !.submits = @ + 1, !.dialed = @ + 1]
    /\ UNCHANGED <<timers, listens, quit, authSent>>
    /\ UNCHANGED <<govVars, srvVars>>
    /\ UNCHANGED sessVars

\* connectToServer returns wsError, and Update handles it
DialFails ==
    /\ ~quit
    /\ dials > 0
    /\ LET r == UpdateWsError(cl)
       IN  /\ cl' = r.model
           /\ timers' = Schedule(timers, r.tick)
    /\ dials' = dials - 1
    /\ ep' = [Episode("dial") EXCEPT !.failed = @ + 1, !.errs = @ + 1]
    /\ UNCHANGED <<listens, quit, authSent>>
    /\ UNCHANGED <<govVars, srvVars>>
    /\ UNCHANGED sessVars

\* connectToServer returns wsConnected, and Update handles it
DialSucceeds(c) ==
    /\ ~quit
    /\ dials > 0
    /\ c # cl.conn
    /\ listens[c] = 0
    /\ cl' = UpdateWsConnected(cl, c)
    /\ dials' = dials - 1
    /\ listens' = [listens EXCEPT ![c] = @ + 1]
    /\ authSent' = [authSent EXCEPT ![c] = authOnConnect(cl)]
    /\ ep' = [Episode("dial") EXCEPT !.over = TRUE]
    /\ UNCHANGED <<timers, quit>>
    /\ UNCHANGED <<govVars, srvVars>>
    /\ UNCHANGED sessVars

\* a reconnect timer fires: case wsReconnect of Update
ReconnectTimer(d) ==
    /\ ~quit
    /\ timers[d] > 0
    /\ timers' = [timers EXCEPT ![d] = @ - 1]
    /\ cl' = [cl EXCEPT !.isReconnecting = TRUE]
    /\ dials' = dials + 1
    /\ ep' = [Episode("dial") EXCEPT !.delays = Append(@, d), !.dialed = @ + 1]
    /\ UNCHANGED <<listens, quit, authSent>>
    /\ UNCHANGED <<govVars, srvVars>>
    /\ UNCHANGED sessVars

\* listenForMessages returns wsError (the connection dropped)
ListenFails(c) ==
    /\ ~quit
    /\ listens[c] > 0
    /\ Episode("drop").drops < MaxDrops
    /\ LET r == UpdateWsError(cl)
       IN  /\ cl' = r.model
           /\ timers' = Schedule(timers, r.tick)
    /\ listens' = [listens EXCEPT ![c] = @ - 1]
    /\ authSent' = [authSent EXCEPT ![c] = "none"]
    /\ ep' = [Episode("drop") EXCEPT !.drops = @ + 1, !.errs = @ + 1]
    /\ UNCHANGED <<dials, quit>>
    /\ UNCHANGED <<govVars, srvVars>>
    /\ UNCHANGED sessVars

\* listenForMessages on c returns wsIncoming with an envelope of type t, and
\* Update handles it; the server answers an auth envelope only
Incoming(c, t) ==
    /\ ~quit
    /\ listens[c] > 0
    /\ t \in {"auth_success", "auth_error"} => authSent[c] # "none"
    /\ cl' = UpdateWsIncoming(cl, t)
    /\ LET n == relisten(cl, c, t)
           taken == [listens EXCEPT ![c] = @ - 1]
       IN  listens' = IF n = 0 THEN taken ELSE [taken EXCEPT ![n] = @ + 1]
    /\ UNCHANGED <<dials, timers, quit, ep, authSent>>
    /\ UNCHANGED <<govVars, srvVars>>
    /\ UNCHANGED sessVars

\* ctrl+c, or q on the auth form or the sidebar
Quit ==
    /\ ~quit
    /\ quit' = TRUE
    /\ UNCHANGED <<cl, dials, timers, listens, ep, authSent>>
    /\ UNCHANGED <<govVars, srvVars>>
    /\ UNCHANGED sessVars

\* ------------------------------------------------------------------------
\* Server: connection actors and the Hub
\* ------------------------------------------------------------------------
\* main: newHub, go hub.run(), no connection accepted yet; ids: the users
\* the store holds; dialing: the peers that are about to connect (the
\* upgrade of any other peer has failed, and its handler has returned)
SrvInit(b, ids, dialing, cap) ==
    /\ build = b
    /\ accounts = ids
    /\ capacity = cap
    /\ rpc = [a \in Actors |-> IF a \in dialing THEN "idle" ELSE "failed"]
    /\ pend = [a \in Actors |-> "none"]
    /\ wpc = [a \in Actors |-> "none"]
    /\ send = [a \in Actors |-> <<>>]
    /\ sendClosed = [a \in Actors |-> FALSE]
    /\ connCloses = [a \in Actors |-> 0]
    /\ userID = [a \in Actors |-> 0]
    /\ clients = [a \in Actors |-> 0]
    /\ crashed = FALSE

\* mutant: the pass ranges over every actor whose loops are running
Registered_connected == {c \in Actors : wpc[c] = "loop"}

\* the keys of Hub.clients
Registered == {a \in Actors : clients[a] > 0}

\* mutant: registering stores one more entry for the actor
mapStore_add(m, a) == [m EXCEPT ![a] = @ + 1]

\* h.clients[client] = true
mapStore(m, a) == [m EXCEPT ![a] = 1]

\* mutant: the entry is left in the map
mapDelete_keep(m, a) == m

\* delete(h.clients, client)
mapDelete(m, a) == [m EXCEPT ![a] = 0]

\* the non-blocking `select { case client.send <- message: default: }`:
\* "panic" on a closed channel, "sent" with room in the buffer, else "full"
trySend(q, closed) ==
    IF closed THEN "panic"
    ELSE IF Len(q) < capacity THEN "sent"
    ELSE "full"

\* --- handleWebSocket / HandleWebSocket: admission ---
\* mutant: the handler goes on to the upgrade after a failed check
admission_noReturn(ok) == "upgrade"

\* `if !rateLimiter.canConnect(clientIP) { http.Error(..., 429); return }`
admission(ok) == IF ok THEN "upgrade" ELSE "refused"

\* the ceiling check before the upgrade
Connect(a) ==
    /\ ~crashed
    /\ rpc[a] = "idle"
    /\ rpc' = [rpc EXCEPT ![a] = admission(canConnect(connections, ActorIP(a)))]
    /\ connections' = mapRead(connections, ActorIP(a))
    /\ UNCHANGED <<authAttempts, now, outstanding, accepted, lastCall>>
    /\ UNCHANGED <<build, pend, wpc, send, sendClosed, connCloses, userID,
                   clients, crashed, accounts, capacity>>
    /\ UNCHANGED clVars
    /\ UNCHANGED sessVars

\* upgrader.Upgrade fails: the handler returns
UpgradeFails(a) ==
    /\ ~crashed
    /\ rpc[a] = "upgrade"
    /\ rpc' = [rpc EXCEPT ![a] = "failed"]
    /\ UNCHANGED govVars
    /\ UNCHANGED <<build, pend, wpc, send, sendClosed, connCloses, userID,
                   clients, crashed, accounts, capacity>>
    /\ UNCHANGED clVars
    /\ UNCHANGED sessVars

\* upgrade done: addConnection, the Client is built, the writer goroutine
\* is started and the reader loop entered
Upgrade(a) ==
    /\ ~crashed
    /\ rpc[a] = "upgrade"
    /\ connections' = addConnection(connections, ActorIP(a))
    /\ rpc' = [rpc EXCEPT ![a] = "read"]
    /\ wpc' = [wpc EXCEPT ![a] = "loop"]
    /\ UNCHANGED <<authAttempts, now, outstanding, accepted, lastCall>>
    /\ UNCHANGED <<build, pend, send, sendClosed, connCloses, userID,
                   clients, crashed, accounts, capacity>>
    /\ UNCHANGED clVars
    /\ UNCHANGED sessVars

\* --- the inbound loop: conn.ReadMessage and the dispatch on wsMsg.Type ---
\* ReadMessage returns an envelope only while the transport is open
CanRead(a) == ~crashed /\ rpc[a] = "read" /\ connCloses[a] = 0

\* `client.send <- resp` (SendJSON) as executed by the reader of actor a
\* with envelope m: a blocking send, which panics on a closed channel. In
\* main.go the panic unwinds the http handler, where net/http recovers it;
\* in ReadPump (a goroutine of its own) the deferred unregister runs and
\* the process dies. With the buffer full the reader stays blocked in the
\* send, holding m.
DirectSend(a, m) ==
    IF sendClosed[a]
    THEN /\ rpc' = [rpc EXCEPT ![a] =
                      IF build = "mono" THEN "panic" ELSE "panicUnreg"]
         /\ pend' = [pend EXCEPT ![a] = "none"]
         /\ send' = send
    ELSE IF Len(send[a]) < capacity
    THEN /\ rpc' = [rpc EXCEPT ![a] = "read"]
         /\ pend' = [pend EXCEPT ![a] = "none"]
         /\ send' = [send EXCEPT ![a] = Append(@, m)]
    ELSE /\ rpc' = [rpc EXCEPT ![a] = "send"]
         /\ pend' = [pend EXCEPT ![a] = m]
         /\ send' = send

\* mutant: the credentials are checked whatever the governor said
authOutcome_noLimit(allowed, good) == IF good THEN "success" ELSE "failed"

\* case "auth": `if !rateLimiter.canAuth(clientIP) { ...; continue }`, and
\* only then handleAuth (good: it accepts the credentials)
authOutcome(allowed, good) ==
    IF ~allowed THEN "limited"
    ELSE IF good THEN "success"
    ELSE "failed"

\* mutant: a refused auth envelope clears the user id
idAfterRefusal_reset(id) == 0

\* client.userID after an auth envelope that was limited or failed: both
\* branches `continue` before the assignment
idAfterRefusal(id) == id

\* case "auth": canAuth, then handleAuth, which returns the id of the user
\* the credentials belong to (uid), or an error (uid = 0)
ReadAuth(a, uid) ==
    /\ CanRead(a)
    /\ uid \in accounts \cup {0}
    /\ LET r == canAuth(authAttempts, ActorIP(a), now, now)
       IN  /\ authAttempts' = r.att
           /\ IF authOutcome(r.ok, uid # 0) = "success"
              THEN /\ userID' = [userID EXCEPT ![a] = uid]
                   /\ rpc' = [rpc EXCEPT ![a] = "register"]
                   /\ pend' = [pend EXCEPT ![a] = "auth_success"]
                   /\ send' = send
              ELSE /\ userID' = [userID EXCEPT ![a] = idAfterRefusal(@)]
                   /\ DirectSend(a, "auth_error")
    /\ UNCHANGED <<connections, now, outstanding, accepted, lastCall>>
    /\ UNCHANGED <<build, wpc, sendClosed, connCloses, clients, crashed, accounts, capacity>>
    /\ UNCHANGED clVars
    /\ UNCHANGED sessVars

\* case "check_user": answered whether or not the actor is authenticated
ReadCheckUser(a) ==
    /\ CanRead(a)
    /\ DirectSend(a, "user_check_result")
    /\ UNCHANGED govVars
    /\ UNCHANGED <<build, wpc, sendClosed, connCloses, userID,
                   clients, crashed, accounts, capacity>>
    /\ UNCHANGED clVars
    /\ UNCHANGED sessVars

\* cases "get_conversations", "create_conversation", "get_messages",
\* "add_participant", "rename_conversation", "leave_conversation":
\* `if client.userID == 0 { continue }`, else a direct reply
ReadQuery(a) ==
    /\ CanRead(a)
    /\ userID[a] # 0
    /\ DirectSend(a, "conversations")
    /\ UNCHANGED govVars
    /\ UNCHANGED <<build, wpc, sendClosed, connCloses, userID,
                   clients, crashed, accounts, capacity>>
    /\ UNCHANGED clVars
    /\ UNCHANGED sessVars

\* cases "send_message" and "typing": `if client.userID == 0 { continue }`,
\* else the envelope is handed to hub.broadcast
ReadBroadcast(a, m) ==
    /\ CanRead(a)
    /\ userID[a] # 0
    /\ rpc' = [rpc EXCEPT ![a] = "broadcast"]
    /\ pend' = [pend EXCEPT ![a] = m]
    /\ UNCHANGED govVars
    /\ UNCHANGED <<build, wpc, send, sendClosed, connCloses, userID,
                   clients, crashed, accounts, capacity>>
    /\ UNCHANGED clVars
    /\ UNCHANGED sessVars

\* ReadMessage returned bytes that json.Unmarshal rejects: the reader is at
\* the log.Printf of the error
ReadMalformed(a) ==
    /\ CanRead(a)
    /\ rpc' = [rpc EXCEPT ![a] = "decodeErr"]
    /\ UNCHANGED govVars
    /\ UNCHANGED <<build, pend, wpc, send, sendClosed, connCloses, userID,
                   clients, crashed, accounts, capacity>>
    /\ UNCHANGED clVars
    /\ UNCHANGED sessVars

\* mutant: a decoding failure ends the inbound loop like a read failure
afterDecodeError_fatal(b, id) ==
    IF b = "mono" /\ id = 0 THEN "done" ELSE "unregister"

\* `if err := json.Unmarshal(msgBytes, &wsMsg); err != nil { ...; continue }`
\* in both builds: back to ReadMessage
afterDecodeError(b, id) == "read"

\* the `continue` after the logged decoding failure
DiscardMalformed(a) ==
    /\ ~crashed
    /\ rpc[a] = "decodeErr"
    /\ rpc' = [rpc EXCEPT ![a] = afterDecodeError(build, userID[a])]
    /\ UNCHANGED govVars
    /\ UNCHANGED <<build, pend, wpc, send, sendClosed, connCloses, userID,
                   clients, crashed, accounts, capacity>>
    /\ UNCHANGED clVars
    /\ UNCHANGED sessVars

\* mutant: the inbound loop returns without the unregistration
afterReadError_return(b, id) == "done"

\* main.go: `if client.userID != 0 { hub.unregister <- client }; return`;
\* ReadPump: `break`, and the deferred `c.Hub.Unregister <- c`
afterReadError(b, id) ==
    IF b = "mono" /\ id = 0 THEN "done" ELSE "unregister"

\* ReadMessage returns an error (remote close, or the transport was closed):
\* main.go unregisters only an authenticated client; ReadPump always does
ReadFails(a) ==
    /\ ~crashed
    /\ rpc[a] = "read"
    /\ rpc' = [rpc EXCEPT ![a] = afterReadError(build, userID[a])]
    /\ UNCHANGED govVars
    /\ UNCHANGED <<build, pend, wpc, send, sendClosed, connCloses, userID,
                   clients, crashed, accounts, capacity>>
    /\ UNCHANGED clVars
    /\ UNCHANGED sessVars

\* the reader's pending `client.send <- resp` goes through: after the auth
\* registration, or when a full queue has room again or has been closed
ReaderSend(a) ==
    /\ ~crashed
    /\ rpc[a] = "send"
    /\ sendClosed[a] \/ Len(send[a]) < capacity
    /\ DirectSend(a, pend[a])
    /\ UNCHANGED govVars
    /\ UNCHANGED <<build, wpc, sendClosed, connCloses, userID,
                   clients, crashed, accounts, capacity>>
    /\ UNCHANGED clVars
    /\ UNCHANGED sessVars

\* --- Hub.run ---
\* case client := <-h.register
HubRegister(a) ==
    /\ ~crashed
    /\ rpc[a] = "register"
    /\ clients' = mapStore(clients, a)
    /\ rpc' = [rpc EXCEPT ![a] = "send"]
    /\ UNCHANGED govVars
    /\ UNCHANGED <<build, pend, wpc, send, sendClosed, connCloses, userID,
                   crashed, accounts, capacity>>
    /\ UNCHANGED clVars
    /\ UNCHANGED sessVars

\* case client := <-h.unregister; the reader that handed it over returns
\* (ReadPump then closes the transport; a panicking ReadPump ends the process)
HubUnregister(a) ==
    /\ ~crashed
    /\ rpc[a] \in {"unregister", "panicUnreg"}
    /\ IF clients[a] > 0
       THEN /\ clients' = mapDelete(clients, a)
            /\ sendClosed' = [sendClosed EXCEPT ![a] = TRUE]
       ELSE UNCHANGED <<clients, sendClosed>>
    /\ crashed' = (\/ clients[a] > 0 /\ sendClosed[a]
                   \/ rpc[a] = "panicUnreg")
    /\ rpc' = [rpc EXCEPT ![a] = "done"]
    /\ connCloses' = [connCloses EXCEPT ![a] = IF build = "ws" THEN @ + 1 ELSE @]
    /\ UNCHANGED govVars
    /\ UNCHANGED <<build, pend, wpc, send, userID, accounts, capacity>>
    /\ UNCHANGED clVars
    /\ UNCHANGED sessVars

\* case message := <-h.broadcast: the whole pass `for client := range
\* h.clients`, made while the RLock is held. The map is ranged over in no
\* fixed order, and a send on a closed queue panics: V is the set of actors
\* visited before the pass ends (all of them) or panics (any set of actors
\* with an open queue).
HubBroadcast(a) ==
    /\ ~crashed
    /\ rpc[a] = "broadcast"
    /\ LET m == pend[a]
           res(c) == trySend(send[c], sendClosed[c])
           panics == {c \in Registered : res(c) = "panic"}
       IN  \E V \in SUBSET (Registered \ panics) :
              /\ panics = {} => V = Registered
              /\ crashed' = (panics # {})
              /\ send' = [c \in Actors |->
                            IF c \in V /\ res(c) = "sent"
                            THEN Append(send[c], m) ELSE send[c]]
              /\ sendClosed' = [c \in Actors |->
                                  (c \in V /\ res(c) = "full") \/ sendClosed[c]]
              /\ clients' = [c \in Actors |->
                               IF c \in V /\ res(c) = "full"
                               THEN mapDelete(clients, c)[c] ELSE clients[c]]
    /\ rpc' = [rpc EXCEPT ![a] = "read"]
    /\ pend' = [pend EXCEPT ![a] = "none"]
    /\ UNCHANGED govVars
    /\ UNCHANGED <<build, wpc, connCloses, userID, accounts, capacity>>
    /\ UNCHANGED clVars
    /\ UNCHANGED sessVars

\* --- the outbound loop: `for msg := range client.send` ---
\* the writer goroutine returns: removeConnection and conn.Close
WriterReturns(a) ==
    /\ connections' = removeConnection(connections, ActorIP(a))
    /\ connCloses' = [connCloses EXCEPT ![a] = @ + 1]
    /\ wpc' = [wpc EXCEPT ![a] = "done"]

\* main.go: `if err := conn.WriteMessage(...); err != nil { return }`;
\* WritePump: `c.Conn.WriteMessage(websocket.TextMessage, msg)`, the error
\* dropped
afterWriteError(b) == IF b = "mono" THEN "return" ELSE "continue"

\* mutant: the loop takes the newest envelope of the buffer
receive_newest(q) == SubSeq(q, 1, Len(q) - 1)

\* `for msg := range client.send`: the buffer after the receive, which
\* takes the oldest envelope
receive(q) == Tail(q)

\* an envelope is taken from the queue and written; ok: WriteMessage
\* succeeds. main.go returns on a failed write, WritePump ignores it.
WriterWrite(a, ok) ==
    /\ ~crashed
    /\ wpc[a] = "loop"
    /\ send[a] # <<>>
    /\ ok => connCloses[a] = 0
    /\ send' = [send EXCEPT ![a] = receive(@)]
    /\ IF ok
       THEN UNCHANGED <<connections, connCloses, wpc>>
       ELSE IF afterWriteError(build) = "return"
       THEN WriterReturns(a)
       ELSE UNCHANGED <<connections, connCloses, wpc>>
    /\ UNCHANGED <<authAttempts, now, outstanding, accepted, lastCall>>
    /\ UNCHANGED <<build, rpc, pend, sendClosed, userID,
                   clients, crashed, accounts, capacity>>
    /\ UNCHANGED clVars
    /\ UNCHANGED sessVars

\* the queue is closed and drained: the range loop ends
WriterExit(a) ==
    /\ ~crashed
    /\ wpc[a] = "loop"
    /\ send[a] = <<>>
    /\ sendClosed[a]
    /\ WriterReturns(a)
    /\ UNCHANGED <<authAttempts, now, outstanding, accepted, lastCall>>
    /\ UNCHANGED <<build, rpc, pend, send, sendClosed, userID,
                   clients, crashed, accounts, capacity>>
    /\ UNCHANGED clVars
    /\ UNCHANGED sessVars

BroadcastTags == {"new_message"}

\* user ids the store may hand out (users.id, from 1)
UserIds == {1, 2}

ServerNext ==
    \/ \E a \in Actors : Connect(a)
    \/ \E a \in Actors : UpgradeFails(a)
    \/ \E a \in Actors : Upgrade(a)
    \/ \E a \in Actors : \E uid \in UserIds \cup {0} : ReadAuth(a, uid)
    \/ \E a \in Actors : ReadCheckUser(a)
    \/ \E a \in Actors : ReadQuery(a)
    \/ \E a \in Actors : \E m \in BroadcastTags : ReadBroadcast(a, m)
    \/ \E a \in Actors : ReadMalformed(a)
    \/ \E a \in Actors : DiscardMalformed(a)
    \/ \E a \in Actors : ReadFails(a)
    \/ \E a \in Actors : ReaderSend(a)
    \/ \E a \in Actors : HubRegister(a)
    \/ \E a \in Actors : HubUnregister(a)
    \/ \E a \in Actors : HubBroadcast(a)
    \/ \E a \in Actors : \E ok \in BOOLEAN : WriterWrite(a, ok)
    \/ \E a \in Actors : WriterExit(a)

\* ------------------------------------------------------------------------
\* Client session store (package session): encrypt, decrypt, Load, Save
\* ------------------------------------------------------------------------
\* bytes are 0..255; text is a sequence of bytes (ASCII codes)
\* gcm.NonceSize(): the length of the nonce (12 bytes), scaled
NonceSize == 2

\* the length of the authentication tag gcm.Seal appends (16 bytes), scaled
TagSize == 2

\* longest value of a Session field explored
MaxField == 1

\* the bytes a Session field is made of: a letter and the double quote
FieldChars == {97, 34}

\* the machine identity (the content of /etc/machine-id, or the hostname)
MachineIds == {1}

\* the nonces io.ReadFull(rand.Reader, nonce) may deliver
Nonces == {[i \in 1..NonceSize |-> b] : b \in {7, 200}}

\* bytes a damaging edit may put into the file: 'A' and '{'
EditChars == {65, 123}

RECURSIVE SeqsUpTo(_, _)
SeqsUpTo(S, n) ==
    IF n = 0 THEN {<<>>}
    ELSE LET shorter == SeqsUpTo(S, n - 1)
         IN  shorter \cup {Append(q, x) : q \in shorter, x \in S}

FieldVals == SeqsUpTo(FieldChars, MaxField)

\* type Session struct { ServerURL, Username, Password string }
Sessions == [ServerURL : {<<119>>}, Username : {<<117>>}, Password : FieldVals]

ZeroSession == [ServerURL |-> <<>>, Username |-> <<>>, Password |-> <<>>]

RECURSIVE SumSeq(_)
SumSeq(q) == IF q = <<>> THEN 0 ELSE Head(q) + SumSeq(Tail(q))

\* --- encoding/base64, StdEncoding ---
\* the character of a 6-bit value: A-Z, a-z, 0-9, '+', '/'
b64Char(v) ==
    IF v < 26 THEN 65 + v
    ELSE IF v < 52 THEN 97 + (v - 26)
    ELSE IF v < 62 THEN 48 + (v - 52)
    ELSE IF v = 62 THEN 43
    ELSE 47

\* the 6-bit value of a character, -1 when it is not in the alphabet
b64Index(c) ==
    IF c >= 65 /\ c <= 90 THEN c - 65
    ELSE IF c >= 97 /\ c <= 122 THEN c - 97 + 26
    ELSE IF c >= 48 /\ c <= 57 THEN c - 48 + 52
    ELSE IF c = 43 THEN 62
    ELSE IF c = 47 THEN 63
    ELSE -1

RECURSIVE EncodeToString(_)
EncodeToString(b) ==
    IF Len(b) = 0 THEN <<>>
    ELSE IF Len(b) = 1
    THEN <<b64Char(b[1] \div 4), b64Char((b[1] % 4) * 16), 61, 61>>
    ELSE IF Len(b) = 2
    THEN <<b64Char(b[1] \div 4),
           b64Char((b[1] % 4) * 16 + (b[2] \div 16)),
           b64Char((b[2] % 16) * 4), 61>>
    ELSE <<b64Char(b[1] \div 4),
           b64Char((b[1] % 4) * 16 + (b[2] \div 16)),
           b64Char((b[2] % 16) * 4 + (b[3] \div 64)),
           b64Char(b[3] % 64)>> \o EncodeToString(SubSeq(b, 4, Len(b)))

DecodeError == [err |-> TRUE, data |-> <<>>]

\* the bytes of one quantum of four characters; last: it ends the input,
\* where `xx==` and `xxx=` are accepted (trailing bits are not checked)
DecodeQuantum(q, last) ==
    LET v == [i \in 1..4 |-> b64Index(q[i])]
        b1 == v[1] * 4 + (v[2] \div 16)
        b2 == (v[2] % 16) * 16 + (v[3] \div 4)
        b3 == (v[3] % 4) * 64 + v[4]
    IN  IF v[1] < 0 \/ v[2] < 0 THEN DecodeError
        ELSE IF v[3] >= 0 /\ v[4] >= 0 THEN [err |-> FALSE, data |-> <<b1, b2, b3>>]
        ELSE IF last /\ v[3] >= 0 /\ q[4] = 61 THEN [err |-> FALSE, data |-> <<b1, b2>>]
        ELSE IF last /\ q[3] = 61 /\ q[4] = 61 THEN [err |-> FALSE, data |-> <<b1>>]
        ELSE DecodeError

RECURSIVE DecodeQuanta(_)
DecodeQuanta(s) ==
    IF Len(s) = 0 THEN [err |-> FALSE, data |-> <<>>]
    ELSE IF Len(s) < 4 THEN DecodeError
    ELSE LET q == DecodeQuantum(SubSeq(s, 1, 4), Len(s) = 4)
             r == DecodeQuanta(SubSeq(s, 5, Len(s)))
         IN  IF q.err \/ r.err THEN DecodeError
             ELSE [err |-> FALSE, data |-> q.data \o r.data]

\* DecodeString skips '\r' and '\n' and decodes the rest
DecodeString(s) == DecodeQuanta(SelectSeq(s, LAMBDA c : c \notin {10, 13}))

\* --- encoding/json for Session ---
\* the field names of the struct tags, as text
KeyServerURL == <<115, 101, 114, 118, 101, 114, 95, 117, 114, 108>>

KeyUsername == <<117, 115, 101, 114, 110, 97, 109, 101>>

KeyPassword == <<112, 97, 115, 115, 119, 111, 114, 100>>

\* a string value: quoted, with '"' and '\' escaped by a backslash
RECURSIVE Escape(_)
Escape(q) ==
    IF q = <<>> THEN <<>>
    ELSE (IF Head(q) \in {34, 92} THEN <<92, Head(q)>> ELSE <<Head(q)>>)
         \o Escape(Tail(q))

Quoted(q) == <<34>> \o Escape(q) \o <<34>>

\* json.Marshal(session)
Marshal(s) ==
    <<123>> \o Quoted(KeyServerURL) \o <<58>> \o Quoted(s.ServerURL)
    \o <<44>> \o Quoted(KeyUsername) \o <<58>> \o Quoted(s.Username)
    \o <<44>> \o Quoted(KeyPassword) \o <<58>> \o Quoted(s.Password)
    \o <<125>>

ScanFail == [ok |-> FALSE, val |-> <<>>, next |-> 0]

\* the rest of a string literal from position i, just after its opening quote
RECURSIVE ScanString(_, _, _)
ScanString(s, i, acc) ==
    IF i > Len(s) THEN ScanFail
    ELSE IF s[i] = 34 THEN [ok |-> TRUE, val |-> acc, next |-> i + 1]
    ELSE IF s[i] < 32 THEN ScanFail
    ELSE IF s[i] = 92
    THEN IF i + 1 <= Len(s) /\ s[i + 1] \in {34, 92}
         THEN ScanString(s, i + 2, Append(acc, s[i + 1]))
         ELSE ScanFail
    ELSE ScanString(s, i + 1, Append(acc, s[i]))

ParseFail == [ok |-> FALSE, session |-> ZeroSession]

SetField(sess, k, v) ==
    IF k = KeyServerURL THEN [sess EXCEPT !.ServerURL = v]
    ELSE IF k = KeyUsername THEN [sess EXCEPT !.Username = v]
    ELSE IF k = KeyPassword THEN [sess EXCEPT !.Password = v]
    ELSE sess

\* the members of an object from position i, where a key must start
RECURSIVE ScanMembers(_, _, _)
ScanMembers(s, i, sess) ==
    IF i > Len(s) \/ s[i] # 34 THEN ParseFail
    ELSE LET k == ScanString(s, i + 1, <<>>)
         IN  IF ~k.ok \/ k.next + 1 > Len(s) THEN ParseFail
             ELSE IF s[k.next] # 58 \/ s[k.next + 1] # 34 THEN ParseFail
             ELSE LET v == ScanString(s, k.next + 2, <<>>)
                  IN  IF ~v.ok \/ v.next > Len(s) THEN ParseFail
                      ELSE IF s[v.next] = 125
                      THEN IF v.next = Len(s)
                           THEN [ok |-> TRUE,
                                 session |-> SetField(sess, k.val, v.val)]
                           ELSE ParseFail
                      ELSE IF s[v.next] = 44
                      THEN ScanMembers(s, v.next + 1,
                                       SetField(sess, k.val, v.val))
                      ELSE ParseFail

\* json.Unmarshal(data, &session) for the documents explored: `null`, and
\* objects whose members are strings; anything else is an error
Unmarshal(s) ==
    IF s = <<110, 117, 108, 108>> THEN [ok |-> TRUE, session |-> ZeroSession]
    ELSE IF Len(s) < 2 \/ s[1] # 123 THEN ParseFail
    ELSE IF s[2] = 125
    THEN IF Len(s) = 2 THEN [ok |-> TRUE, session |-> ZeroSession]
         ELSE ParseFail
    ELSE ScanMembers(s, 2, ZeroSession)

\* --- crypto/cipher: AES-256-GCM under the key sha256(machine id) ---
\* the key stream byte for position i (a stand-in for AES in counter mode);
\* ns is the sum of the nonce's bytes
KeyStream(key, ns, i) == (key * 31 + ns + i) % 256

\* gcm.Seal(dst, nonce, plaintext, nil): dst, then the ciphertext, then the
\* tag, which depends on the key, the nonce and every ciphertext byte
Seal(dst, key, nonce, pt) ==
    LET ns == SumSeq(nonce)
        ct == [i \in 1..Len(pt) |-> (pt[i] + KeyStream(key, ns, i)) % 256]
        cs == SumSeq(ct)
        tag == [j \in 1..TagSize |->
                  (key + j * j + ns + cs + 7 * Len(ct)) % 256]
    IN  dst \o ct \o tag

\* gcm.Open(nil, nonce, box, nil): a nonce of the wrong length panics; a box
\* shorter than the tag, or one whose tag does not verify, is an error; else
\* the plaintext is returned. The tag verifies exactly when gcm.Seal
\* produces this box for that plaintext under this key and nonce.
Open(key, nonce, box) ==
    LET ns == SumSeq(nonce)
        pt == [i \in 1..(Len(box) - TagSize) |->
                 (box[i] + 256 - KeyStream(key, ns, i)) % 256]
    IN  IF Len(nonce) # NonceSize THEN [kind |-> "panic", data |-> <<>>]
        ELSE IF Len(box) < TagSize THEN [kind |-> "err", data |-> <<>>]
        ELSE IF box # Seal(<<>>, key, nonce, pt)
        THEN [kind |-> "err", data |-> <<>>]
        ELSE [kind |-> "ok", data |-> pt]

\* --- encrypt, decrypt ---
\* ciphertext := gcm.Seal(nonce, nonce, data, nil), base64 of it
encrypt(data, key, nonce) == EncodeToString(Seal(nonce, key, nonce, data))

\* mutant: the length check is gone
tooShort_never(n) == FALSE

\* `if len(data) < nonceSize`
tooShort(n) == n < NonceSize

\* the slice expression data[lo:hi], which panics when out of range
Slice(data, lo, hi) ==
    IF lo > hi \/ hi > Len(data)
    THEN [kind |-> "panic", data |-> <<>>]
    ELSE [kind |-> "ok", data |-> SubSeq(data, lo + 1, hi)]

\* mutant: the ciphertext is taken one byte early
cipherStart_early(n) == n - 1

\* nonce, ciphertext := data[:nonceSize], data[nonceSize:]
cipherStart(n) == n

decrypt(encoded, key) ==
    LET d == DecodeString(encoded)
        nonce == Slice(d.data, 0, NonceSize)
        box == Slice(d.data, cipherStart(NonceSize), Len(d.data))
    IN  IF d.err THEN [kind |-> "err", data |-> <<>>]
        ELSE IF tooShort(Len(d.data)) THEN [kind |-> "err", data |-> <<>>]
        ELSE IF nonce.kind = "panic" \/ box.kind = "panic"
        THEN [kind |-> "panic", data |-> <<>>]
        ELSE Open(key, nonce.data, box.data)

\* --- Save and Load ---
NoFile == [exists |-> FALSE, data |-> <<>>]

\* Save(profile, url, user, pass): home, the config directory is known; wok,
\* MkdirAll, the random source and WriteFile all succeed. The file after the
\* call.
Save(file, s, key, nonce, home, wok) ==
    IF home /\ wok
    THEN [err |-> FALSE,
          file |-> [exists |-> TRUE, data |-> encrypt(Marshal(s), key, nonce)]]
    ELSE [err |-> TRUE, file |-> file]

\* mutant: a file that does not decrypt is no session, whatever it holds
legacy_never(plain) == ParseFail

\* `json.Unmarshal(data, &session)` on the bytes of the file itself
legacy(plain) == Unmarshal(plain)

\* Load(profile): the *Session it returns (found FALSE: nil), whether it
\* panics, and the Save it makes on the way
Load(file, key, home) ==
    LET none == [found |-> FALSE, session |-> ZeroSession,
                 resave |-> FALSE, panics |-> FALSE]
        dec == decrypt(file.data, key)
    IN  IF ~home THEN none
        ELSE IF ~file.exists THEN none
        ELSE IF dec.kind = "panic" THEN [none EXCEPT !.panics = TRUE]
        ELSE IF dec.kind = "err"
        THEN LET l == legacy(file.data)
             IN  IF l.ok
                 THEN [found |-> TRUE, session |-> l.session,
                       resave |-> TRUE, panics |-> FALSE]
                 ELSE none
        ELSE LET u == Unmarshal(dec.data)
             IN  IF u.ok
                 THEN [found |-> TRUE, session |-> u.session,
                       resave |-> FALSE, panics |-> FALSE]
                 ELSE none

NoOrigin == [kind |-> "none", session |-> ZeroSession, key |-> 0, data |-> <<>>]

NoLoad == [op |-> "none", home |-> TRUE, wok |-> TRUE, before |-> NoFile,
           found |-> FALSE, session |-> ZeroSession, migrated |-> FALSE,
           panics |-> FALSE]

\* no session file yet; k: the identity of the machine the client runs on
SessInit(k) ==
    /\ sessionFile = NoFile
    /\ encKey = k
    /\ origin = NoOrigin
    /\ lastLoad = NoLoad
    /\ damaged = FALSE

\* the client saves the session after a successful login. A write replaces
\* the whole file, so damage done before it leaves no trace: the damage
\* explored is the one the next Load finds.
SaveSession(s, nonce, home, wok) ==
    /\ ~damaged
    /\ LET r == Save(sessionFile, s, encKey, nonce, home, wok)
       IN  /\ sessionFile' = r.file
           /\ origin' = IF r.err THEN origin
                        ELSE [kind |-> "saved", session |-> s, key |-> encKey,
                              data |-> r.file.data]
           /\ damaged' = damaged
    /\ lastLoad' = NoLoad
    /\ UNCHANGED encKey
    /\ UNCHANGED <<govVars, clVars, srvVars>>

\* a release that predates the encryption left the session as plain JSON
WriteLegacy(s) ==
    /\ ~damaged
    /\ sessionFile' = [exists |-> TRUE, data |-> Marshal(s)]
    /\ origin' = [kind |-> "legacy", session |-> s, key |-> 0,
                  data |-> Marshal(s)]
    /\ damaged' = FALSE
    /\ lastLoad' = NoLoad
    /\ UNCHANGED encKey
    /\ UNCHANGED <<govVars, clVars, srvVars>>

\* the file is damaged: one byte is overwritten
Corrupt(i, c) ==
    /\ sessionFile.exists
    /\ ~damaged
    /\ i \in 1..Len(sessionFile.data)
    /\ sessionFile.data[i] # c
    /\ sessionFile' = [sessionFile EXCEPT !.data[i] = c]
    /\ damaged' = TRUE
    /\ lastLoad' = NoLoad
    /\ UNCHANGED <<encKey, origin>>
    /\ UNCHANGED <<govVars, clVars, srvVars>>

\* the file is damaged: only its first n bytes are left
Truncate(n) ==
    /\ sessionFile.exists
    /\ ~damaged
    /\ n < Len(sessionFile.data)
    /\ sessionFile' = [sessionFile EXCEPT !.data = SubSeq(@, 1, n)]
    /\ damaged' = TRUE
    /\ lastLoad' = NoLoad
    /\ UNCHANGED <<encKey, origin>>
    /\ UNCHANGED <<govVars, clVars, srvVars>>

\* Clear(profile): os.Remove of the file
Clear ==
    /\ sessionFile' = NoFile
    /\ origin' = NoOrigin
    /\ damaged' = FALSE
    /\ lastLoad' = NoLoad
    /\ UNCHANGED encKey
    /\ UNCHANGED <<govVars, clVars, srvVars>>

\* Load(profile) at start-up, with the Save of the one-time migration
LoadSession(nonce, home, wok) ==
    /\ LET r == Load(sessionFile, encKey, home)
           w == Save(sessionFile, r.session, encKey, nonce, home, wok)
       IN  /\ lastLoad' = [op |-> "load", home |-> home, wok |-> wok,
                           before |-> sessionFile, found |-> r.found, session |-> r.session,
                           migrated |-> r.resave, panics |-> r.panics]
           /\ IF r.resave
              THEN /\ sessionFile' = w.file
                   /\ origin' = IF w.err THEN origin
                                ELSE [kind |-> "saved", session |-> r.session,
                                      key |-> encKey, data |-> w.file.data]
                   /\ damaged' = damaged
              ELSE UNCHANGED <<sessionFile, origin, damaged>>
    /\ UNCHANGED encKey
    /\ UNCHANGED <<govVars, clVars, srvVars>>

SessionNext ==
    \/ \E s \in Sessions : \E n \in Nonces : \E home, wok \in BOOLEAN :
          SaveSession(s, n, home, wok)
    \/ \E s \in Sessions : WriteLegacy(s)
    \/ \E i \in 1..200 : \E c \in EditChars : Corrupt(i, c)
    \/ \E n \in 0..200 : Truncate(n)
    \/ Clear
    \/ \E n \in Nonces : \E home, wok \in BOOLEAN : LoadSession(n, home, wok)

\* ------------------------------------------------------------------------
\* Governor operations, called freely (ConnSpec, AuthSpec)
\* ------------------------------------------------------------------------
GovInit ==
    /\ connections = EmptyMap
    /\ authAttempts = [k \in {} |-> <<>>]
    /\ now = 0
    /\ outstanding = [ip \in Addrs |-> 0]
    /\ accepted = [ip \in Addrs |-> <<>>]
    /\ lastCall = NoCall

CanConnect(ip) ==
    /\ lastCall' = [op |-> "canConnect", ip |-> ip,
                    ok |-> canConnect(connections, ip), full |-> FALSE]
    /\ connections' = mapRead(connections, ip)
    /\ UNCHANGED <<authAttempts, now, outstanding, accepted>>
    /\ UNCHANGED <<clVars, srvVars>>
    /\ UNCHANGED sessVars

AddConnection(ip) ==
    /\ outstanding[ip] < MaxConns + MaxOver
    /\ connections' = addConnection(connections, ip)
    /\ outstanding' = [outstanding EXCEPT ![ip] = @ + 1]
    /\ lastCall' = [op |-> "addConnection", ip |-> ip, ok |-> TRUE, full |-> FALSE]
    /\ UNCHANGED <<authAttempts, now, accepted>>
    /\ UNCHANGED <<clVars, srvVars>>
    /\ UNCHANGED sessVars

\* a release matching an earlier admit
RemoveConnection(ip) ==
    /\ outstanding[ip] > 0
    /\ connections' = removeConnection(connections, ip)
    /\ outstanding' = [outstanding EXCEPT ![ip] = @ - 1]
    /\ lastCall' = [op |-> "removeConnection", ip |-> ip, ok |-> TRUE, full |-> FALSE]
    /\ UNCHANGED <<authAttempts, now, accepted>>
    /\ UNCHANGED <<clVars, srvVars>>
    /\ UNCHANGED sessVars

\* a release with no admit outstanding for the address
RemoveUnadmitted(ip) ==
    /\ outstanding[ip] = 0
    /\ connections' = removeConnection(connections, ip)
    /\ lastCall' = [op |-> "removeUnadmitted", ip |-> ip, ok |-> TRUE, full |-> FALSE]
    /\ UNCHANGED <<authAttempts, now, outstanding, accepted>>
    /\ UNCHANGED <<clVars, srvVars>>
    /\ UNCHANGED sessVars

\* canAuth reads the clock twice: for the cutoff and for the recorded stamp
CanAuth(ip) ==
    /\ \E d \in {0, 1} :
           /\ now + d <= MaxTime
           /\ LET r == canAuth(authAttempts, ip, now, now + d)
                  ok == r.ok
              IN  /\ authAttempts' = r.att
                  /\ now' = IF ok THEN now + d ELSE now
                  /\ accepted' = IF ok
                                 THEN [accepted EXCEPT ![ip] = Append(@, now + d)]
                                 ELSE accepted
                  /\ lastCall' = [op |-> "canAuth", ip |-> ip, ok |-> ok,
                                  full |-> InWindow(accepted[ip], now) >= MaxAuth]
           /\ UNCHANGED <<connections, outstanding>>
    /\ UNCHANGED <<clVars, srvVars>>
    /\ UNCHANGED sessVars

Cleanup ==
    /\ authAttempts' = cleanup(authAttempts, now)
    /\ lastCall' = [op |-> "cleanup", ip |-> "ip1", ok |-> TRUE, full |-> FALSE]
    /\ UNCHANGED <<connections, now, outstanding, accepted>>
    /\ UNCHANGED <<clVars, srvVars>>
    /\ UNCHANGED sessVars

Tick ==
    /\ now < MaxTime
    /\ now' = now + 1
    /\ UNCHANGED <<connections, authAttempts, outstanding, accepted, lastCall>>
    /\ UNCHANGED <<clVars, srvVars>>
    /\ UNCHANGED sessVars

\* a fresh governor; the client and the server stay as constructed
GovOnlyInit == GovInit /\ ClInit(FALSE) /\ SrvInit("mono", {1}, Actors, SendCap) /\ SessInit(1)

\* the connection counters, called in any order with matching releases
ConnNext ==
    \/ \E ip \in Addrs : CanConnect(ip)
    \/ \E ip \in Addrs : AddConnection(ip)
    \/ \E ip \in Addrs : RemoveConnection(ip)
    \/ \E ip \in Addrs : RemoveUnadmitted(ip)

ConnSpec == GovOnlyInit /\ [][ConnNext]_vars

\* the authentication window, the sweep and the clock, in any order
AuthNext ==
    \/ \E ip \in Addrs : CanAuth(ip)
    \/ Cleanup
    \/ Tick

AuthSpec == GovOnlyInit /\ [][AuthNext]_vars

\* the client controller driven by the user, the connector and the server
ClientNext ==
    \/ SubmitLogin
    \/ DialFails
    \/ \E c \in ConnIds : DialSucceeds(c)
    \/ \E d \in 1..ReconnectLimit : ReconnectTimer(d)
    \/ \E c \in ConnIds : ListenFails(c)
    \/ Quit

ClientInit ==
    GovInit /\ SrvInit("mono", {1}, Actors, SendCap) /\ SessInit(1) /\ \E saved \in BOOLEAN : ClInit(saved)

ClientSpec == ClientInit /\ [][ClientNext]_vars

\* the client with a server that is reachable and answers: every dial
\* succeeds, and the receives return envelopes as well as errors
LoginNext ==
    \/ SubmitLogin
    \/ \E c \in ConnIds : DialSucceeds(c)
    \/ \E d \in 1..ReconnectLimit : ReconnectTimer(d)
    \/ \E c \in ConnIds : ListenFails(c)
    \/ \E c \in ConnIds : \E t \in IncomingTypes : Incoming(c, t)
    \/ Quit

LoginSpec == ClientInit /\ [][LoginNext]_vars

\* the server of either build, driven by its peers
Init == GovInit /\ ClInit(FALSE) /\ SessInit(1) /\ \E b \in Builds : SrvInit(b, {1}, Actors, SendCap)

Spec == Init /\ [][ServerNext]_vars

\* the server of either build with two users in the store and one peer, so
\* that one connection can authenticate as either user
AccountsInit ==
    /\ GovInit /\ ClInit(FALSE) /\ SessInit(1)
    /\ \E b \in Builds : SrvInit(b, UserIds, {"a1"}, WideCap)

AccountsSpec == AccountsInit /\ [][ServerNext]_vars

\* the session file written, damaged and loaded in any order
SessionInit ==
    /\ GovInit /\ ClInit(FALSE) /\ SrvInit("mono", {1}, Actors, SendCap)
    /\ \E k \in MachineIds : SessInit(k)

SessionSpec == SessionInit /\ [][SessionNext]_vars

\* ------------------------------------------------------------------------
\* Properties of the governor (ConnSpec, AuthSpec)
\* ------------------------------------------------------------------------
\* C3: canConnect(address) is true exactly when the admits not yet matched
\* by a release are fewer than the ceiling: false at `ceiling` open
\* connections, true again after one release.
Thm_C3_CanConnectIffBelowCeiling ==
    /\ \A ip \in Addrs :
          canConnect(connections, ip) <=> (outstanding[ip] < MaxConns)
    /\ lastCall.op = "canConnect" =>
          (lastCall.ok <=> (outstanding[lastCall.ip] < MaxConns))

Wit_C3_RefusedAtCeiling ==
    /\ lastCall.op = "canConnect"
    /\ ~lastCall.ok
    /\ outstanding[lastCall.ip] = MaxConns

\* C4: in any window of one minute at most `ceiling` attempts of an address
\* were accepted, and an attempt made while the window is full is rejected.
Thm_C4_AtMostCeilingPerWindow ==
    /\ \A ip \in Addrs : \A t \in 0..MaxTime :
          InWindow(accepted[ip], t) <= MaxAuth
    /\ (lastCall.op = "canAuth" /\ lastCall.full) => ~lastCall.ok

Wit_C4_RejectedInFullWindow ==
    /\ lastCall.op = "canAuth"
    /\ lastCall.full
    /\ ~lastCall.ok
    /\ InWindow(accepted[lastCall.ip], now) = MaxAuth

\* C5: a rejected canAuth leaves the in-window stamps of the address as they
\* were, so the verdict of any later attempt is not changed by it.
Thm_C5_RejectionRecordsNothing ==
    [][(lastCall'.op = "canAuth" /\ ~lastCall'.ok) =>
         LET ip == lastCall'.ip
             old == SelectSeq(Attempts(authAttempts, ip),
                              LAMBDA x : x > now - Window)
             new == SelectSeq(Attempts(authAttempts', ip),
                              LAMBDA x : x > now - Window)
         IN  /\ new = old
             /\ \A t \in now..MaxTime :
                   canAuth(authAttempts', ip, t, t).ok
                       = canAuth(authAttempts, ip, t, t).ok
      ]_vars

Wit_C5_Rejected ==
    /\ lastCall.op = "canAuth"
    /\ ~lastCall.ok
    /\ Len(Attempts(authAttempts, lastCall.ip)) >= MaxAuth

\* ------------------------------------------------------------------------
\* Properties of the client reconnect controller (ClientSpec)
\* ------------------------------------------------------------------------
\* the user submitted the login form once and the server never dropped a
\* connection: every dial so far belongs to the first run of attempts
FirstRun == ep.start = "dial" /\ ep.submits = 1 /\ ep.drops = 0

NoTimerPending == \A d \in 1..ReconnectLimit : timers[d] = 0

\* C6: when the connector fails 4 times and then succeeds, the controller is
\* Connected with reconnectCount 0, after 5 attempts separated by waits of
\* 1, 2, 3 and 4 seconds.
Thm_C6_FourFailuresThenConnected ==
    (FirstRun /\ ep.over /\ ep.failed = 4) =>
        /\ cl.connected
        /\ cl.conn # 0
        /\ cl.reconnectCount = 0
        /\ ~cl.err
        /\ ep.dialed = 5
        /\ ep.delays = <<1, 2, 3, 4>>
        /\ NoTimerPending

Wit_C6_ConnectedAfterFourFailures ==
    /\ FirstRun
    /\ ep.over
    /\ ep.failed = 4
    /\ cl.connected

\* C7 as stated: with a connector that always fails the controller is in its
\* terminal failure state after exactly 5 connection attempts.
Orig_C7_GivesUpAfterFiveAttempts ==
    (FirstRun /\ ~ep.over /\ cl.err) => ep.dialed = 5

\* C7 amended: the fatal error is surfaced by the 6th consecutive failure.
\* A connector that always fails is called 6 times (the first dial and 5
\* reconnections after waits of 1..5 seconds); then no timer is pending, no
\* dial is in flight and no 7th attempt is made.
Thm_C7_GivesUpAfterSixAttempts ==
    /\ []((FirstRun /\ ~ep.over /\ cl.err) =>
            /\ ep.dialed = ReconnectLimit + 1
            /\ ep.failed = ReconnectLimit + 1
            /\ ep.delays = <<1, 2, 3, 4, 5>>
            /\ dials = 0
            /\ NoTimerPending
            /\ ~cl.isReconnecting)
    /\ [][(~cl.err /\ cl'.err) =>
            (ep'.errs = ReconnectLimit + 1 /\ timers' = timers)]_vars

Wit_C7_TerminalFailure ==
    /\ FirstRun
    /\ ~ep.over
    /\ cl.err
    /\ ep.failed = ReconnectLimit + 1

\* ------------------------------------------------------------------------
\* Properties of the Hub and the connection actors (Spec)
\* ------------------------------------------------------------------------
\* C1: the registry never holds the same actor more than once, and right
\* after the Hub has processed unregister(a) the actor a is not in it.
Thm_C1_NoDuplicateAndGoneAfterUnregister ==
    /\ [](\A a \in Actors : clients[a] <= 1)
    /\ [][\A a \in Actors :
            (rpc[a] \in {"unregister", "panicUnreg"} /\ rpc'[a] = "done")
                => clients'[a] = 0]_vars

\* an authenticated actor has been unregistered while another one stays
Wit_C1_UnregisteredWhileOtherStays ==
    \E a, b \in Actors :
        /\ rpc[a] = "done"
        /\ userID[a] # 0
        /\ sendClosed[a]
        /\ clients[a] = 0
        /\ clients[b] = 1

\* C2 as stated: in a broadcast pass of envelope m every registered actor is
\* visited; one whose queue is not at capacity gets m appended and stays
\* registered, one whose queue is at capacity is removed in the pass and
\* gets nothing.
Orig_C2_BroadcastDeliversOrRemoves ==
    [][\A a \in Actors :
          (rpc[a] = "broadcast" /\ rpc'[a] = "read") =>
              \A c \in Registered :
                  IF Len(send[c]) < capacity
                  THEN /\ send'[c] = Append(send[c], pend[a])
                       /\ clients'[c] = 1
                  ELSE /\ send'[c] = send[c]
                       /\ clients'[c] = 0
      ]_vars

\* the Hub has removed a from the registry (unregister or overflow)
Unregistered(a) == sendClosed[a]

\* C8 as stated: an actor is in the registry if and only if it has
\* authenticated and has not yet been unregistered. An actor between
\* `client.userID = userID` and the Hub's receipt of `hub.register <- client`
\* is not counted as missing.
Orig_C8_RegisteredIffAuthenticated ==
    \A a \in Actors :
        /\ clients[a] > 0 => (userID[a] # 0 /\ ~Unregistered(a))
        /\ (userID[a] # 0 /\ ~Unregistered(a) /\ rpc[a] # "register")
              => clients[a] > 0

\* the writer of a can take a step: an envelope to write, or a closed and
\* drained queue to leave the range loop on
WriterCanStep(a) ==
    wpc[a] = "loop" /\ (send[a] # <<>> \/ sendClosed[a])

\* the reader of a can take a step without a new envelope from the remote:
\* a rendezvous with the Hub, a pending send that can proceed, or a read on
\* a transport that has been closed
ReaderCanStep(a) ==
    \/ rpc[a] \in {"upgrade", "register", "unregister", "panicUnreg",
                   "broadcast", "decodeErr"}
    \/ rpc[a] = "send" /\ (sendClosed[a] \/ Len(send[a]) < capacity)
    \/ rpc[a] = "read" /\ connCloses[a] > 0

\* nothing is left to run in the server until a remote acts
Quiescent ==
    /\ ~crashed
    /\ \A a \in Actors : ~WriterCanStep(a) /\ ~ReaderCanStep(a)

\* the connection of a was accepted and its inbound loop has returned
Ended(a) == rpc[a] = "done"

\* C9 as stated: once every connection of an address has ended and the
\* server has nothing left to run, the address's count is zero and its
\* entry is removed.
Orig_C9_CountZeroAfterAllEnded ==
    \A ip \in Addrs :
        (/\ Quiescent
         /\ \E a \in Actors : ActorIP(a) = ip /\ Ended(a)
         /\ \A a \in Actors :
               ActorIP(a) = ip => rpc[a] \in {"idle", "refused", "failed", "done"})
        => (ConnCount(connections, ip) = 0 /\ ip \notin DOMAIN connections)

\* one of the two loops of a has exited
ReaderExited(a) == rpc[a] \in {"done", "panic"}

WriterExited(a) == wpc[a] = "done"

\* C10 as stated: once one loop of an actor has exited and the server has
\* nothing left to run, the other loop has exited too and the transport has
\* been closed.
Orig_C10_BothLoopsExit ==
    \A a \in Actors :
        (Quiescent /\ (ReaderExited(a) \/ WriterExited(a)))
        => (ReaderExited(a) /\ WriterExited(a) /\ connCloses[a] >= 1)

\* C11 as stated: no execution closes the transport of an actor a second
\* time.
Orig_C11_TransportClosedAtMostOnce ==
    \A a \in Actors : connCloses[a] <= 1

\* C12 as stated: the Hub closes an actor's queue at most once, whether by
\* unregister or by overflow removal; unregistering an actor that is not in
\* the registry changes nothing and closes nothing; neither panics.
Orig_C12_QueueClosedAtMostOnce ==
    [][/\ \A a \in Actors :
            (rpc[a] \in {"unregister", "panicUnreg"} /\ rpc'[a] = "done") =>
                /\ rpc[a] = "unregister" => ~crashed'
                /\ IF clients[a] > 0
                   THEN ~sendClosed[a] /\ sendClosed'[a] /\ clients'[a] = 0
                   ELSE /\ clients' = clients
                        /\ sendClosed' = sendClosed
                        /\ send' = send
       /\ \A c \in Actors :
            (~sendClosed[c] /\ sendClosed'[c]) =>
                (clients[c] > 0 /\ clients'[c] = 0)
      ]_vars

\* the reader of a stands in `client.send <- resp` with the buffer full and
\* the queue open: the send cannot proceed until the writer takes an envelope
ReaderBlocked(a) ==
    rpc[a] = "send" /\ ~sendClosed[a] /\ Len(send[a]) >= capacity

\* C13 as stated: no producer waits on a full queue; a direct reply that
\* finds the queue full does not leave the inbound loop blocked in the send.
Orig_C13_NoProducerBlocks ==
    \A a \in Actors : ~ReaderBlocked(a)

\* the reader of a has handed a register, unregister or broadcast to the
\* Hub and waits for the Hub to receive it
HubPending(a) == rpc[a] \in {"register", "unregister", "broadcast"}

\* C14 as stated: the Hub stays able to process whatever is handed to it,
\* and a broadcast pass appends the envelope to every registered actor whose
\* queue is open and not full, whatever the state of any other actor's queue.
Orig_C14_HubNeverBlocked ==
    /\ [](\A a \in Actors : HubPending(a) => ~crashed)
    /\ [][\A a \in Actors :
            (rpc[a] = "broadcast" /\ rpc'[a] = "read") =>
                \A c \in Registered :
                    (~sendClosed[c] /\ Len(send[c]) < capacity)
                        => send'[c] = Append(send[c], pend[a])
         ]_vars

\* C15 as stated: an Unauthenticated actor gets a reply to `auth` envelopes
\* only. Its queue and its pending reply hold nothing but auth_error, and
\* it hands nothing to hub.broadcast.
Orig_C15_UnauthenticatedIgnored ==
    \A a \in Actors :
        userID[a] = 0 =>
            /\ rpc[a] # "broadcast"
            /\ pend[a] \in {"none", "auth_error"}
            /\ \A i \in 1..Len(send[a]) : send[a][i] = "auth_error"

\* C16: after any sequence of admits and releases, matched or not, every
\* stored count is positive: none is negative and a count that reached zero
\* has had its entry removed.
Thm_C16_CountsPositiveOrAbsent ==
    /\ \A ip \in DOMAIN connections : connections[ip] > 0
    /\ \A ip \in Addrs : ConnCount(connections, ip) >= 0

\* a release has just brought the count of an address to zero, or was made
\* with nothing admitted, and the address has no entry
Wit_C16_EntryRemovedAtZero ==
    /\ lastCall.op \in {"removeConnection", "removeUnadmitted"}
    /\ lastCall.ip \notin DOMAIN connections
    /\ \E ip \in Addrs : ip \in DOMAIN connections

\* C17: stamps that have left the window do not count. A canAuth call made
\* while fewer than `ceiling` accepted attempts of the address lie in the
\* trailing window is accepted, and in every state the verdict a call would
\* get depends on the in-window attempts only.
Thm_C17_AgedOutAttemptsDoNotCount ==
    /\ (lastCall.op = "canAuth" /\ ~lastCall.full) => lastCall.ok
    /\ \A ip \in Addrs :
          canAuth(authAttempts, ip, now, now).ok
              <=> (InWindow(accepted[ip], now) < MaxAuth)

\* an attempt was accepted after a full window of the address had aged out:
\* more than `ceiling` attempts accepted in all, the last one just now
Wit_C17_AcceptedAfterAgeing ==
    /\ lastCall.op = "canAuth"
    /\ lastCall.ok
    /\ Len(accepted[lastCall.ip]) > MaxAuth
    /\ InWindow(accepted[lastCall.ip], now) = 1

\* C18: the sweep is advisory. With sweeps running at arbitrary points, the
\* in-window stamps canAuth counts are in every state those of the full
\* history of accepted attempts, which no sweep touches; and a sweep changes
\* the verdict of no call made at any later time.
Thm_C18_SweepIsAdvisory ==
    /\ [](\A ip \in Addrs :
            Recent(Attempts(authAttempts, ip), now) = Recent(accepted[ip], now))
    /\ [][lastCall'.op = "cleanup" =>
            \A ip \in Addrs : \A t \in now'..MaxTime :
                canAuth(authAttempts', ip, t, t).ok
                    = canAuth(authAttempts, ip, t, t).ok
         ]_vars

\* a sweep has just deleted the entry of an address that had attempts
\* accepted, while another address keeps its entry
Wit_C18_SweepRemovedEntry ==
    /\ lastCall.op = "cleanup"
    /\ \E ip \in Addrs :
          accepted[ip] # <<>> /\ ip \notin DOMAIN authAttempts
    /\ \E ip \in Addrs : ip \in DOMAIN authAttempts

\* C19: the ceiling check made for a connection request leaves the
\* open-connection counts and the recorded attempts of every address as
\* they were.
Thm_C19_CanConnectChangesNothing ==
    [][\A a \in Actors :
          (rpc[a] = "idle" /\ rpc'[a] \in {"upgrade", "refused"}) =>
              /\ connections' = connections
              /\ authAttempts' = authAttempts
      ]_vars

\* the check has been made, and has refused, with a count and attempts on
\* record for the address
Wit_C19_CheckedWithRecords ==
    \E a \in Actors :
        /\ rpc[a] = "refused"
        /\ ActorIP(a) \in DOMAIN authAttempts
        /\ ConnCount(connections, ActorIP(a)) = MaxConns

\* C20: a request made while the address's count is at or over the ceiling
\* is refused before the upgrade. The refusal leaves the count unchanged and
\* is final, and a refused request has no actor: no queue, no loops, no
\* registration, no transport to close.
Thm_C20_RefusedBeforeUpgrade ==
    /\ [](\A a \in Actors :
            rpc[a] = "refused" =>
                /\ wpc[a] = "none"
                /\ userID[a] = 0
                /\ clients[a] = 0
                /\ send[a] = <<>> /\ ~sendClosed[a]
                /\ connCloses[a] = 0)
    /\ [][\A a \in Actors :
            /\ (rpc[a] = "idle" /\ rpc'[a] # "idle") =>
                  /\ rpc'[a] = "refused"
                        <=> ConnCount(connections, ActorIP(a)) >= MaxConns
                  /\ connections' = connections
            /\ rpc[a] = "refused" => rpc'[a] = "refused"
         ]_vars

\* a request has been refused while the address holds the ceiling's worth of
\* connections, one of them with its loops running
Wit_C20_RefusedAtCeiling ==
    \E a, b \in Actors :
        /\ rpc[a] = "refused"
        /\ ActorIP(b) = ActorIP(a)
        /\ wpc[b] = "loop"
        /\ ConnCount(connections, ActorIP(a)) >= MaxConns

\* ------------------------------------------------------------------------
\* Properties of the client session store (SessionSpec)
\* ------------------------------------------------------------------------
\* the file is the one Save wrote, byte for byte
Intact ==
    /\ origin.kind = "saved"
    /\ sessionFile.exists
    /\ sessionFile.data = origin.data

\* the file was written by Save and its ciphertext bytes have changed since
CiphertextDamaged ==
    /\ origin.kind = "saved"
    /\ sessionFile.exists
    /\ DecodeString(sessionFile.data) # DecodeString(origin.data)

\* C21: decrypting what encrypt produced for a session record, under the
\* same key, gives back the bytes of that record, and they unmarshal to the
\* record itself; decrypt never panics, whatever the file holds, and it
\* returns an error once the ciphertext bytes have been damaged.
Thm_C21_RoundTripAndCorruptionIsAnError ==
    /\ (Intact /\ origin.key = encKey) =>
          LET d == decrypt(sessionFile.data, encKey)
          IN  /\ d.kind = "ok"
              /\ d.data = Marshal(origin.session)
              /\ Unmarshal(d.data) = [ok |-> TRUE, session |-> origin.session]
    /\ sessionFile.exists =>
          decrypt(sessionFile.data, encKey).kind \in {"ok", "err"}
    /\ CiphertextDamaged => decrypt(sessionFile.data, encKey).kind = "err"

Wit_C21_DamagedBoxRejected ==
    /\ CiphertextDamaged
    /\ lastLoad.op = "load"
    /\ ~lastLoad.found
    /\ LET d == DecodeString(sessionFile.data)
       IN  ~d.err /\ Len(d.data) >= NonceSize + TagSize

\* C22: Load never fails: with a file that does not decrypt but is a plain
\* JSON session it returns that session and saves it again (the file then
\* decrypts to that session; when the write fails, the error is dropped and
\* the file stays as it was); with no file, or one that neither decrypts
\* nor parses, it returns no session and leaves the file alone.
Thm_C22_LoadFallsBackToLegacy ==
    lastLoad.op = "load" =>
        LET before == lastLoad.before
            dec == decrypt(before.data, encKey)
            plain == Unmarshal(before.data)
            readable == lastLoad.home /\ before.exists
        IN  /\ ~lastLoad.panics
            /\ (readable /\ dec.kind # "ok" /\ plain.ok) =>
                  /\ lastLoad.found
                  /\ lastLoad.session = plain.session
                  /\ IF lastLoad.wok
                     THEN LET again == decrypt(sessionFile.data, encKey)
                          IN  /\ sessionFile.exists
                              /\ again.kind = "ok"
                              /\ Unmarshal(again.data) =
                                    [ok |-> TRUE, session |-> plain.session]
                     ELSE sessionFile = before
            /\ (~readable \/ (dec.kind # "ok" /\ ~plain.ok)) =>
                  /\ ~lastLoad.found
                  /\ sessionFile = before
            /\ (readable /\ dec.kind = "ok") =>
                  /\ lastLoad.found <=> Unmarshal(dec.data).ok
                  /\ lastLoad.found =>
                        lastLoad.session = Unmarshal(dec.data).session
                  /\ sessionFile = before

Wit_C22_LegacyMigrated ==
    /\ lastLoad.op = "load"
    /\ lastLoad.migrated
    /\ lastLoad.wok
    /\ lastLoad.found
    /\ Intact
    /\ decrypt(sessionFile.data, encKey).kind = "ok"

\* ------------------------------------------------------------------------
\* Properties of the connection actors (Spec)
\* ------------------------------------------------------------------------
\* the governor's window of the actor's address is full
WindowFull(a) == ~canAuth(authAttempts, ActorIP(a), now, now).ok

\* the inbound loop of a performs `client.send <- m` in this step: m is
\* appended to its queue, or the loop is left waiting in the send with m
Replies(a, m) ==
    \/ /\ send'[a] = Append(send[a], m)
       /\ rpc'[a] = "read"
       /\ pend'[a] = "none"
    \/ /\ rpc[a] = "read"
       /\ rpc'[a] = "send"
       /\ pend'[a] = m
       /\ send'[a] = send[a]

\* C23: while the governor's window is full, no step of an Unauthenticated
\* actor's inbound loop authenticates or registers it, and the step that
\* answers its auth envelope sends auth_error and changes nothing else: no
\* attempt is recorded, the registry, the user id and the transport stay as
\* they were and the loop goes on reading.
Thm_C23_RejectedAuthOnlyReplies ==
    [][\A a \in Actors :
         (rpc[a] = "read" /\ userID[a] = 0 /\ WindowFull(a)) =>
            /\ userID'[a] = 0
            /\ rpc'[a] # "register"
            /\ clients'[a] = 0
            /\ Replies(a, "auth_error") =>
                  /\ Recent(Attempts(authAttempts', ActorIP(a)), now)
                        = Recent(Attempts(authAttempts, ActorIP(a)), now)
                  /\ UNCHANGED <<connections, userID, clients, sendClosed,
                                 connCloses, wpc, crashed>>
                  /\ \A b \in Actors \ {a} :
                        /\ rpc'[b] = rpc[b]
                        /\ pend'[b] = pend[b]
                        /\ send'[b] = send[b]
      ]_vars

Wit_C23_RejectedAndStillOpen ==
    \E a \in Actors :
       /\ WindowFull(a)
       /\ userID[a] = 0
       /\ clients[a] = 0
       /\ rpc[a] = "read"
       /\ send[a] = <<"auth_error">>
       /\ connCloses[a] = 0
       /\ ~sendClosed[a]
       /\ \A b \in Actors \ {a} : userID[b] # 0 /\ clients[b] > 0

\* C24: a successful authentication sets the user id and hands the actor to
\* the Hub with nothing enqueued yet; the Hub stores it; and the send of
\* auth_success that follows the registration puts the envelope into the
\* actor's queue.
Orig_C24_RegisteredThenAuthSuccess ==
    [][\A a \in Actors :
         /\ (rpc[a] = "read" /\ rpc'[a] = "register") =>
               /\ userID'[a] # 0
               /\ pend'[a] = "auth_success"
               /\ send'[a] = send[a]
         /\ (rpc[a] = "register" /\ rpc'[a] # "register") =>
               /\ rpc'[a] = "send"
               /\ clients'[a] > 0
               /\ send'[a] = send[a]
         /\ (rpc[a] = "send" /\ pend[a] = "auth_success" /\ rpc'[a] # "send") =>
               /\ rpc'[a] = "read"
               /\ send'[a] = Append(send[a], "auth_success")
      ]_vars

\* C25: the user id of an actor is set only by the step of its inbound loop
\* that accepts an auth envelope, and once it is set no later step changes
\* it.
Orig_C25_UserIdSetOnce ==
    [][\A a \in Actors :
         /\ (userID[a] = 0 /\ userID'[a] # 0) =>
               (rpc[a] = "read" /\ rpc'[a] = "register")
         /\ userID[a] # 0 => userID'[a] = userID[a]
      ]_vars

\* the phase of a connection actor: no actor before the upgrade; Closed
\* once its inbound loop has returned or its transport has been closed
Phase(a) ==
    IF rpc[a] \in {"idle", "upgrade", "refused", "failed"} THEN "none"
    ELSE IF rpc[a] \in {"done", "panic"} \/ connCloses[a] > 0 THEN "Closed"
    ELSE IF userID[a] # 0 THEN "Authenticated"
    ELSE "Unauthenticated"

PhaseRank(p) ==
    CASE p = "none" -> 0
      [] p = "Unauthenticated" -> 1
      [] p = "Authenticated" -> 2
      [] p = "Closed" -> 3

\* C26: the phase of an actor never moves backwards: an Authenticated actor
\* stays Authenticated until it is Closed, also when a later auth envelope
\* of its connection is refused, and a Closed actor stays Closed, with the
\* user id it had.
Thm_C26_PhaseOnlyMovesForward ==
    [][\A a \in Actors :
         /\ PhaseRank(Phase(a)') >= PhaseRank(Phase(a))
         /\ userID[a] # 0 => userID'[a] # 0
         /\ Phase(a) = "Closed" => userID'[a] = userID[a]
      ]_vars

Wit_C26_RefusedWhileAuthenticated ==
    \E a \in Actors :
       /\ Phase(a) = "Authenticated"
       /\ clients[a] > 0
       /\ rpc[a] = "read"
       /\ send[a] = <<"auth_error">>

\* C27: a read failure ends the inbound loop of an Authenticated actor by
\* handing the unregistration to the Hub (and changes nothing else); the
\* loop has returned only when the Hub has taken it, and then the actor is
\* absent from the registry and its queue is closed, for good.
Thm_C27_ReadFailureUnregisters ==
    /\ [](\A a \in Actors :
            (rpc[a] = "done" /\ userID[a] # 0) =>
               (clients[a] = 0 /\ sendClosed[a]))
    /\ [][\A a \in Actors :
           /\ (rpc[a] = "read" /\ userID[a] # 0
                  /\ rpc'[a] \in {"done", "unregister"}) =>
                 /\ rpc'[a] = "unregister"
                 /\ UNCHANGED <<clients, send, sendClosed, userID, pend>>
           /\ (rpc[a] = "unregister" /\ userID[a] # 0
                  /\ rpc'[a] # "unregister") =>
                 /\ rpc'[a] = "done"
                 /\ clients'[a] = 0
                 /\ sendClosed'[a]
        ]_vars

Wit_C27_UnregisteredAfterReadFailure ==
    \E a \in Actors :
       /\ rpc[a] = "done"
       /\ userID[a] # 0
       /\ clients[a] = 0
       /\ sendClosed[a]
       /\ ~crashed

\* C28: a failed write ends the outbound loop and closes the actor. A write
\* on a transport that has been closed fails, and a write after which
\* main.go's loop is over has failed: after either the loop is over and the
\* transport is closed, and a loop that is over takes nothing off the queue.
Orig_C28_WriteFailureIsFatal ==
    [][\A a \in Actors :
          /\ (send[a] # <<>> /\ send'[a] = Tail(send[a])
                 /\ (connCloses[a] > 0 \/ wpc'[a] = "done")) =>
                /\ wpc'[a] = "done"
                /\ connCloses'[a] > 0
          /\ wpc[a] = "done" => Len(send'[a]) >= Len(send[a])
      ]_vars

\* C29: a malformed inbound envelope is discarded and the inbound loop goes
\* on: the step that reads it and the step that discards it change nothing
\* but the reader's position, and the discard puts the reader back at
\* ReadMessage, so that the state the next envelope is dispatched in is the
\* state it would have been dispatched in without the malformed one.
Thm_C29_MalformedEnvelopeDiscarded ==
    [][\A a \in Actors :
          /\ (rpc[a] = "read" /\ rpc'[a] = "decodeErr") =>
                /\ rpc' = [rpc EXCEPT ![a] = "decodeErr"]
                /\ UNCHANGED <<govVars, build, pend, wpc, send, sendClosed,
                               connCloses, userID, clients, crashed,
                               accounts, capacity>>
          /\ (rpc[a] = "decodeErr" /\ rpc'[a] # "decodeErr") =>
                /\ rpc' = [rpc EXCEPT ![a] = "read"]
                /\ UNCHANGED <<govVars, build, pend, wpc, send, sendClosed,
                               connCloses, userID, clients, crashed,
                               accounts, capacity>>
      ]_vars

\* a registered, authenticated actor with an envelope in its queue has sent
\* a malformed envelope, which its reader is about to discard
Wit_C29_MalformedFromRegisteredActor ==
    \E a \in Actors :
        /\ rpc[a] = "decodeErr"
        /\ userID[a] # 0
        /\ clients[a] > 0
        /\ send[a] # <<>>

\* the tags of the envelopes the server enqueues
Envelopes ==
    {"auth_error", "auth_success", "user_check_result", "conversations"}
        \cup BroadcastTags

\* C30: outbound delivery to one actor is first in, first out: a queue
\* changes only by one envelope enqueued behind those it holds (a direct
\* reply or a broadcast), or by its outbound loop taking the envelope at its
\* head, the others keeping their order; nothing is enqueued twice in a
\* step, taken from the middle or put back.
Thm_C30_OutboundQueueIsFifo ==
    [][\A a \in Actors :
          \/ send'[a] = send[a]
          \/ \E m \in Envelopes : send'[a] = Append(send[a], m)
          \/ /\ send[a] # <<>>
             /\ send'[a] = Tail(send[a])
             /\ wpc[a] = "loop"
      ]_vars

\* a queue holds a direct reply and, behind it, a broadcast, and its
\* outbound loop is running on an open transport
Wit_C30_ReplyAheadOfBroadcast ==
    \E a \in Actors :
        /\ Len(send[a]) >= 2
        /\ send[a][1] = "auth_success"
        /\ send[a][2] \in BroadcastTags
        /\ wpc[a] = "loop"
        /\ connCloses[a] = 0

\* ------------------------------------------------------------------------
\* The Hub's lock
\* ------------------------------------------------------------------------
\* the mode h.mu is held in by each case of Hub.run's select:
\* `h.mu.Lock()` in the register and unregister cases, `h.mu.RLock()` around
\* the whole broadcast pass, the `default:` removal included
lockHeld(case) == IF case = "broadcast" THEN "RLock" ELSE "Lock"

\* the case of Hub.run's select that a step executes, read off the reader
\* whose hand-over the Hub receives ("none": not a step of the Hub)
HubCase ==
    IF \E a \in Actors : rpc[a] = "register" /\ rpc'[a] # "register"
    THEN "register"
    ELSE IF \E a \in Actors :
               rpc[a] \in {"unregister", "panicUnreg"} /\ rpc'[a] = "done"
    THEN "unregister"
    ELSE IF \E a \in Actors : rpc[a] = "broadcast" /\ rpc'[a] # "broadcast"
    THEN "broadcast"
    ELSE "none"

\* C31: the registry is mutated only while the exclusive lock is held: a
\* step that changes Hub.clients is a step of a case of Hub.run that holds
\* h.mu in write mode.
Orig_C31_RegistryMutatedUnderWriteLock ==
    [][clients' # clients =>
          (HubCase # "none" /\ lockHeld(HubCase) = "Lock")]_vars

\* ------------------------------------------------------------------------
\* Properties of the client's connection handling (ClientSpec, LoginSpec)
\* ------------------------------------------------------------------------
\* C32: a transport error while Connected puts the controller in Backoff and
\* schedules exactly one reconnection, after one second, with the attempt
\* count at 1; every further failure that is retried raises the count by
\* one and schedules exactly one reconnection after count seconds.
Thm_C32_ErrorSchedulesOneAttempt ==
    /\ [](cl.connected => cl.reconnectCount = 0)
    /\ [][/\ (cl.connected /\ ~cl'.connected) =>
               /\ cl'.isReconnecting
               /\ cl'.reconnectCount = 1
               /\ cl'.conn = 0
               /\ timers' = [timers EXCEPT ![1] = @ + 1]
               /\ dials' <= dials
          /\ cl'.reconnectCount > cl.reconnectCount =>
               /\ cl'.reconnectCount = cl.reconnectCount + 1
               /\ cl'.isReconnecting
               /\ timers' = [timers EXCEPT ![cl'.reconnectCount] = @ + 1]
          /\ timers' # timers =>
               \/ cl'.reconnectCount > cl.reconnectCount
               \/ \E d \in 1..ReconnectLimit :
                     /\ timers' = [timers EXCEPT ![d] = @ - 1]
                     /\ dials' = dials + 1
         ]_vars

\* a connection dropped and the first reconnection failed: the second one is
\* scheduled after two seconds
Wit_C32_SecondAttemptScheduled ==
    /\ ep.start = "drop"
    /\ ~cl.connected
    /\ cl.isReconnecting
    /\ cl.reconnectCount = 2
    /\ timers[2] = 1
    /\ dials = 0

ReceivesInFlight ==
    LET sum[T \in SUBSET ConnIds] ==
            IF T = {} THEN 0
            ELSE LET c == CHOOSE x \in T : TRUE
                 IN  listens[c] + sum[T \ {c}]
    IN  sum[ConnIds]

\* C34: the read loop has at most one receive in flight at any time.
Orig_C34_OneReceiveInFlight == ReceivesInFlight <= 1

\* C35: a user-initiated quit unblocks the receive in flight and ends the
\* reconnect scheduling: once the controller has quit no receive is in
\* flight, no timer fires and no connection attempt is started.
Orig_C35_QuitUnblocksAndStops ==
    /\ [](quit => ReceivesInFlight = 0)
    /\ [][quit => (dials' = dials /\ timers' = timers)]_vars

\* ------------------------------------------------------------------------
\* Implicit properties of the server
\* ------------------------------------------------------------------------
\* C36: the number of simultaneously admitted connections of an address
\* never exceeds the ceiling.
Orig_C36_AdmittedWithinCeiling ==
    \A ip \in Addrs : ConnCount(connections, ip) <= MaxConns

\* C37: no envelope is sent on an outbound queue that has been closed: no
\* reader's `client.send <- resp` finds the queue closed (it would panic),
\* and no broadcast pass reaches an actor whose queue is closed.
Orig_C37_NoSendOnClosedQueue ==
    [][/\ \A a \in Actors :
             rpc'[a] \in {"panic", "panicUnreg"} => rpc'[a] = rpc[a]
       /\ (HubCase = "broadcast" /\ ~crashed) => ~crashed'
      ]_vars

\* C38: an actor removed from the registry is never registered again, so
\* every actor in the registry has an open outbound queue.
Orig_C38_RegisteredQueueIsOpen ==
    /\ [](\A a \in Actors : clients[a] > 0 => ~sendClosed[a])
    /\ [][\A a \in Actors :
             (clients[a] = 0 /\ clients'[a] > 0) => ~sendClosed[a]]_vars

\* C39: an actor that has never authenticated (client.userID is still 0)
\* is not in the registry and holds no broadcast envelope: whatever enters
\* its queue is put there by its own reader, as the reply to its own
\* request.
Thm_C39_NoBroadcastToUnauthenticated ==
    /\ [](\A a \in Actors :
             userID[a] = 0 =>
                /\ clients[a] = 0
                /\ \A i \in 1..Len(send[a]) : send[a][i] \notin BroadcastTags)
    /\ [][\A a \in Actors :
             (userID'[a] = 0 /\ Len(send'[a]) > Len(send[a])) =>
                /\ rpc[a] \in {"read", "send"}
                /\ rpc'[a] = "read"
                /\ \E m \in {"auth_error", "user_check_result"} :
                      send'[a] = Append(send[a], m)
         ]_vars

\* a broadcast has been delivered to an authenticated actor while another
\* actor is connected, unauthenticated, with its loops running and room in
\* its queue
Wit_C39_BroadcastPassedOverUnauthenticated ==
    \E a, b \in Actors :
        /\ userID[a] = 0
        /\ rpc[a] = "read"
        /\ wpc[a] = "loop"
        /\ send[a] = <<>>
        /\ ~sendClosed[a]
        /\ userID[b] # 0
        /\ \E i \in 1..Len(send[b]) : send[b][i] \in BroadcastTags

\* ------------------------------------------------------------------------
\* Implicit property of the client
\* ------------------------------------------------------------------------
\* C40: the client never shows itself as authenticated on a connection on
\* which no auth envelope was sent: whenever it is connected and
\* authenticated, the step that established the connection sent one.
Orig_C40_AuthenticatedOnlyWhereAuthSent ==
    (cl.connected /\ cl.authenticated) => authSent[cl.conn] # "none"

====
